---- MODULE Spec2Model ----
(***************************************************************************)
(* Weekly-plan add-in: the Weekly score pipeline, the Tasks and Summary    *)
(* ledgers, the week rollover, the habits tracker and the event router,    *)
(* modelled as a state machine over the workbook's cells and the add-in's  *)
(* session state.                                                          *)
(*                                                                         *)
(* Encoding of cell values.  A cell that holds a number or nothing is a    *)
(* sequence: <<>> is the empty cell, <<n>> the number n, and <<0, 0>> a    *)
(* text that parseFloat/parseInt turn into NaN.  Name cells are strings,   *)
(* "" being the empty cell.  Score amounts are counted in 1/Unit, so that  *)
(* 0.2 is Unit \div 5 and 1.1^s is exact up to MaxStreak.                  *)
(***************************************************************************)
EXTENDS Integers, Sequences, FiniteSets, TLC

\* ------------------------------------------------------------------ bounds
\* number of user events in one behaviour
MaxSteps == 4
\* last calendar day (counted from the base Monday) the clock may reach
MaxDay == 8
\* longest habit streak whose 1.1^streak the amounts represent exactly
MaxStreak == 2
\* weekday columns (0 .. MaxEditDay) and data rows the user types into
MaxEditDay == 1
MaxEditRow == 1
\* Tasks-sheet rows below the header rows, and habit rows
MaxTasks == 6
MaxHabits == 3
\* the random draws of one Random Pick run start at 0 .. MaxSeed
MaxSeed == 1
\* the largest column index, the last letter (0 = 'A') and the most letters of
\* a column string, the largest digit and the longest text of an address
MaxIndex == 30
MaxLetter == 1
MaxLetters == 2
MaxDigit == 3
MaxAddressLen == 5
\* the weeks a workbook stays closed in one go
AbsenceWeeks == 3
\* the latest time of day, in minutes, the clock may reach
MaxClock == 580
\* the most runs of the score pipeline counted for one task
MaxRuns == 3

\* ------------------------------------------------ configuration constants
DATA_START_ROW == 5
lastTimeLine == 36
scoreLine == 38
DAYS_IN_WEEK == 7
TASKS_START_ROW == 4
HABITS_DATA_START_ROW == 4
DAYS_COUNT == 14

WEEKLY_SHEET == "Weekly"
HABITS_SHEET == "Habits"
TASKS_SHEET == "Tasks"

POSITIVE == "#70AD47"
NEGATIVE == "#ED7D31"
NEUTRAL == "#FFC000"
CURRENT_TIME == "#FFFF00"
TODAY_HIGHLIGHT == "#FFFF00"
NoFill == "none"

TASK_COLUMNS == {3, 5, 7, 9, 11, 13, 15}
SCORE_COLUMNS == {4, 6, 8, 10, 12, 14, 16}

\* ------------------------------------------------------------ cell values
Blank == <<>>
Num(n) == <<n>>
NaNText == <<0, 0>>
IsNum(c) == Len(c) = 1
IsEmptyCell(c) == c = Blank

RECURSIVE Pow(_, _)
Pow(b, e) == IF e = 0 THEN 1 ELSE b * Pow(b, e - 1)

Unit == Pow(10, MaxStreak)

\* the dropdown's choices 0, 0.2, .., 1 in 1/Unit
SCORE_OPTIONS == {(k * Unit) \div 5 : k \in 0..5}

\* parseFloat(v) || d  and  parseInt(v) || d : NaN and 0 both give d
OrDefault(c, d) == IF IsNum(c) /\ c[1] # 0 THEN c[1] ELSE d

\* ---------------------------------------------------------------- calendar
\* Day numbers count from Monday 2024-12-09 (day 0).
MonthOffset(y, m) ==
  IF y = 2024 /\ m = 11 THEN 0 - 39
  ELSE IF y = 2024 /\ m = 12 THEN 0 - 9
  ELSE IF y = 2025 /\ m = 1 THEN 22
  ELSE 53

\* new Date(year, monthIndex, day) as a day number
DayNumber(y, m, d) == MonthOffset(y, m) + d

DateOf(n) ==
  IF n <= 0 - 9 THEN [y |-> 2024, m |-> 11, d |-> n + 39]
  ELSE IF n <= 22 THEN [y |-> 2024, m |-> 12, d |-> n + 9]
  ELSE [y |-> 2025, m |-> 1, d |-> n - 22]

\* Date.getDay(): 0 = Sunday .. 6 = Saturday
GetDay(n) == (n + 1) % 7

formatDateYYYYMMDD(n) == DateOf(n).y * 10000 + DateOf(n).m * 100 + DateOf(n).d

getMonday(n) == n - (IF GetDay(n) = 0 THEN 6 ELSE GetDay(n) - 1)

daysBetween(d1, d2) == d2 - d1

\* no utility function called yet
NoCall == [fn |-> "", arg |-> <<>>, out |-> <<>>, back |-> <<>>]

\* ------------------------------------------------------- column addressing
\* column letters are sequences of letter codes 0..25 ('A' = 0)
RECURSIVE ColAcc(_, _, _)
ColAcc(letter, i, index) ==
  IF i > Len(letter) THEN index
  ELSE ColAcc(letter, i + 1, index * 26 + letter[i])

columnLetterToIndex(letter) == ColAcc(letter, 1, 0)

RECURSIVE LetterAcc(_, _)
LetterAcc(index, letter) ==
  IF index < 0 THEN letter
  ELSE LetterAcc((index \div 26) - 1, <<index % 26>> \o letter)

indexToColumnLetter(index) == LetterAcc(index, <<>>)

Days == 0..(DAYS_IN_WEEK - 1)
TimeRows == (DATA_START_ROW..(DATA_START_ROW + MaxEditRow)) \cup {lastTimeLine}
\* the Weekly sheet's task/score block C5:P38 (row 38 is the totals row); of
\* its data rows the model keeps the first ones and the last two, the rows
\* between them stay empty
GridCols == 3..16
GridRows == (DATA_START_ROW..(DATA_START_ROW + MaxEditRow))
            \cup {lastTimeLine, scoreLine - 1, scoreLine}
\* 1-based column number of an address's column letters
ColOf(letter) == columnLetterToIndex(letter) + 1

\* rows of the Tasks, Summary and Habits sheets that the model keeps
TasksRows == 1..(TASKS_START_ROW + MaxTasks)
SummaryRows == 1..(MaxSteps + 2)
HabitRows == HABITS_DATA_START_ROW..(HABITS_DATA_START_ROW + MaxHabits - 1)
HabitDays == 0..(DAYS_COUNT - 1)

\* Range.getUsedRange().rowCount of a column: the rows from its first to its
\* last used cell; 0 stands for the ItemNotFound error of an unused column.
UsedRows(col, rows, empty) == {r \in rows : col[r] # empty}
Min(S) == CHOOSE x \in S : \A y \in S : x <= y
Max(S) == CHOOSE x \in S : \A y \in S : x >= y
RowCount(col, rows, empty) ==
  IF UsedRows(col, rows, empty) = {} THEN 0
  ELSE Max(UsedRows(col, rows, empty)) - Min(UsedRows(col, rows, empty)) + 1

VARIABLES
  val,          \* Weekly!C5:P38 values: task names, scores, totals (row 38)
  fill,         \* Weekly!C5:P38 fill colours
  dateCell,     \* Weekly!B4, the "yyyy mm" text as its space-separated parts
  dayHeader,    \* Weekly!D4,F4,..,P4 day-of-month numbers
  hdrFill,      \* Weekly!C4:P4 fill colours
  timeVal,      \* Weekly!B5:B36 time values
  timeFill,     \* Weekly!B5:B36 fill colours
  tasksSheet,   \* Tasks sheet rows: A name, B weight, C created, D last used, F count, G score
  summarySheet, \* Summary sheet rows: A date, D positive, E negative, F total
  habitsDateCell, \* Habits!B3, the "yyyy mm" text as its parts
  habitsHeader, \* Habits!D3:Q3 day-of-month numbers
  habitsSheet,  \* Habits rows: A name, C base score, days D..Q, R total, fillB
  state,        \* the add-in's session state (state.js)
  changed,      \* number of onChanged handlers registered per sheet
  queue,        \* cell-changed handler invocations not yet run
  archived,     \* number of week archives downloaded
  archiveErrors, \* number of archive attempts that failed (history)
  habitStatus,  \* the status recordHabitDone showed last: "", "error", "success"
  today,        \* the calendar day, as a day number
  clock,        \* the time of day in minutes
  steps,        \* user events so far
  last,         \* what the last step did (history)
  entered,      \* per score column, the weighted scores applied since the last
                \* week reset (history)
  probe,        \* a call of a utility function: its name, argument and result
  inflight      \* invocations of handleCellChanged that have read the totals
                \* cell and not yet written it

wb == <<val, fill, dateCell, dayHeader, hdrFill, timeVal, timeFill>>
ledgers == <<tasksSheet, summarySheet>>
habits == <<habitsDateCell, habitsHeader, habitsSheet>>
vars == <<val, fill, dateCell, dayHeader, hdrFill, timeVal, timeFill, tasksSheet,
          summarySheet, habitsDateCell, habitsHeader, habitsSheet, state, changed,
          queue, archived, archiveErrors, habitStatus, today, clock, steps, last,
          entered, probe, inflight>>

\* The workbook and session as one record, so that a procedure is a function
\* from the record before it to the record after it.
Cur ==
  [val |-> val, fill |-> fill, dateCell |-> dateCell, dayHeader |-> dayHeader,
   hdrFill |-> hdrFill, timeFill |-> timeFill, tasksSheet |-> tasksSheet,
   summarySheet |-> summarySheet, habitsDateCell |-> habitsDateCell,
   habitsHeader |-> habitsHeader,
   habitsSheet |-> habitsSheet, state |-> state, changed |-> changed,
   archived |-> archived, archiveErrors |-> archiveErrors,
   habitStatus |-> habitStatus, entered |-> entered,
   \* inputs of the step: whether reading the sheet for the archive fails,
   \* whether reading the Summary sheet's date column fails, and whether the
   \* first read of initializeWeeklyOnOpen (B4 and D4) fails
   archiveFails |-> FALSE, summaryFails |-> FALSE, weeklyInitFails |-> FALSE,
   \* and whether the workbook has no Summary sheet
   summaryMissing |-> FALSE]

Commit(v) ==
  \E w \in {v} :
  /\ val' = w.val
  /\ fill' = w.fill
  /\ dateCell' = w.dateCell
  /\ dayHeader' = w.dayHeader
  /\ hdrFill' = w.hdrFill
  /\ timeFill' = w.timeFill
  /\ tasksSheet' = w.tasksSheet
  /\ summarySheet' = w.summarySheet
  /\ habitsDateCell' = w.habitsDateCell
  /\ habitsHeader' = w.habitsHeader
  /\ habitsSheet' = w.habitsSheet
  /\ state' = w.state
  /\ changed' = w.changed
  /\ archived' = w.archived
  /\ archiveErrors' = w.archiveErrors
  /\ habitStatus' = w.habitStatus
  /\ entered' = w.entered

\* formatDateTime(new Date()): the date key and the time of day
formatDateTime == <<formatDateYYYYMMDD(today), clock>>

\* parseAddress: the column letters, the 1-based column number and the row
parseAddress(address) ==
  [column |-> address.column,
   colIndex |-> columnLetterToIndex(address.column) + 1,
   row |-> address.row]

\* The characters of an address text: 0..25 are the letters 'A'..'Z' (as in a
\* column's letters), 26..35 the digits '0'..'9', OtherChar any other character
\* (a lowercase letter, '$', '!').
Digit(d) == 26 + d
OtherChar == 36
IsUpper(ch) == ch >= 0 /\ ch <= 25
IsDigit(ch) == ch >= Digit(0) /\ ch <= Digit(9)

\* the position after the longest run of uppercase letters (of digits) from i
RECURSIVE UpperEnd(_, _)
UpperEnd(text, i) ==
  IF i <= Len(text) /\ IsUpper(text[i]) THEN UpperEnd(text, i + 1) ELSE i
RECURSIVE DigitEnd(_, _)
DigitEnd(text, i) ==
  IF i <= Len(text) /\ IsDigit(text[i]) THEN DigitEnd(text, i + 1) ELSE i

\* parseInt of a run of digits
RECURSIVE ParseDigits(_, _, _)
ParseDigits(text, i, n) ==
  IF i > Len(text) THEN n ELSE ParseDigits(text, i + 1, n * 10 + (text[i] - Digit(0)))

\* the JavaScript null
Null == [null |-> TRUE]

\* a faulty variant: the pattern is tried at the start of the text only
MatchStartsAnchored(text) ==
  {i \in {1} : /\ i <= Len(text) /\ IsUpper(text[i])
                /\ UpperEnd(text, i) <= Len(text)
                /\ IsDigit(text[UpperEnd(text, i)])}

\* the positions where /([A-Z]+)(\d+)/ can match: an uppercase letter whose
\* run of uppercase letters is directly followed by a digit
MatchStarts(text) ==
  {i \in 1..Len(text) : /\ IsUpper(text[i])
                         /\ UpperEnd(text, i) <= Len(text)
                         /\ IsDigit(text[UpperEnd(text, i)])}

\* address.match(/([A-Z]+)(\d+)/): the leftmost match, both groups greedy
AddressMatch(text) ==
  IF MatchStarts(text) = {} THEN Null
  ELSE LET i == Min(MatchStarts(text))
           j == UpperEnd(text, i)
       IN [column |-> SubSeq(text, i, j - 1),
           row |-> ParseDigits(SubSeq(text, j, DigitEnd(text, j) - 1), 1, 0)]

\* parseAddress of an address given as its text
parseAddressText(text) ==
  IF AddressMatch(text) = Null THEN Null ELSE parseAddress(AddressMatch(text))

\* ------------------------------------------------------------ Summary ledger
\* the Summary row that updateSummary works on: the first row of A1:A(summaryL+1)
\* holding today's key, else the row after summaryL
SummaryRowFor(w) ==
  LET found == {r \in 1..(w.state.summaryL + 1) :
                   w.summarySheet[r].A = Num(formatDateYYYYMMDD(today))}
  IN IF found = {} THEN w.state.summaryL + 1 ELSE Min(found)

SummaryRowIsNew(w) ==
  \A r \in 1..(w.state.summaryL + 1) :
     w.summarySheet[r].A # Num(formatDateYYYYMMDD(today))

updateSummary(w, positiveScore, negativeScore) ==
  LET summaryRow == SummaryRowFor(w)
      isNew == SummaryRowIsNew(w)
      s1 == IF isNew
            THEN [w.summarySheet EXCEPT
                    ![summaryRow].A = Num(formatDateYYYYMMDD(today))]
            ELSE w.summarySheet
      st1 == IF isNew THEN [w.state EXCEPT !.summaryL = summaryRow] ELSE w.state
      s2 == IF positiveScore > 0
            THEN [s1 EXCEPT ![summaryRow].D = Num(OrDefault(@, 0) + positiveScore)]
            ELSE s1
      s3 == IF negativeScore < 0
            THEN [s2 EXCEPT ![summaryRow].E = Num(OrDefault(@, 0) + negativeScore)]
            ELSE s2
      s4 == [s3 EXCEPT ![summaryRow].F =
                          Num(OrDefault(@, 0) + positiveScore + negativeScore)]
  \* without a Summary sheet updateSummary returns at once; a failed read
  \* throws inside the try block: the catch block logs the error and
  \* updateSummary returns to its caller
  IN IF w.summaryMissing THEN w
     ELSE IF w.summaryFails THEN w
     ELSE [w EXCEPT !.summarySheet = s4, !.state = st1]

\* ------------------------------------------------------------ score pipeline
\* rows A4:A(taskl) of the Tasks sheet
TasksRange(w) == TASKS_START_ROW..w.state.taskl

\* the lookup loop: the first row named taskName, else the last row named
\* 'others', else -1
LookupTask(w, taskName) ==
  LET hits == {r \in TasksRange(w) : w.tasksSheet[r].A = taskName}
  IN IF hits = {} THEN 0 - 1 ELSE Min(hits)

LookupOthers(w) ==
  LET hits == {r \in TasksRange(w) : w.tasksSheet[r].A = "others"}
  IN IF hits = {} THEN 0 - 1 ELSE Max(hits)

\* parseFloat(weightCell) || 1
TaskWeight(weightCell) == OrDefault(weightCell, 1)

\* the ledger row the entry is charged to (taskl + 1 when 'others' is created)
ResolveTaskIndex(w, taskName) ==
  IF LookupTask(w, taskName) # 0 - 1 THEN LookupTask(w, taskName)
  ELSE IF LookupOthers(w) # 0 - 1 THEN LookupOthers(w)
  ELSE w.state.taskl + 1

CreatesOthers(w, taskName) ==
  LookupTask(w, taskName) = 0 - 1 /\ LookupOthers(w) = 0 - 1

ResolveWeight(w, taskName) ==
  IF CreatesOthers(w, taskName) THEN 1
  ELSE TaskWeight(w.tasksSheet[ResolveTaskIndex(w, taskName)].B)

WeightedScore(taskWeight, newScore) == taskWeight * newScore

\* a faulty variant: the empty task cell is not checked
NoTaskSelectedNever(taskName) == FALSE

\* if (!taskName) return
NoTaskSelected(taskName) == taskName = ""

\* a faulty variant: the magnitude of the score is counted as positive
PositivePartAbs(weightedScore) ==
  IF weightedScore < 0 THEN 0 - weightedScore ELSE weightedScore

\* the two amounts handed to updateSummary
PositivePart(weightedScore) == IF weightedScore > 0 THEN weightedScore ELSE 0
NegativePart(weightedScore) == IF weightedScore < 0 THEN weightedScore ELSE 0

\* a faulty variant: a zero score is coloured as a positive one
ScoreColorNoNeutral(weightedScore) ==
  IF weightedScore >= 0 THEN POSITIVE ELSE NEGATIVE

ScoreColor(weightedScore) ==
  IF weightedScore > 0 THEN POSITIVE
  ELSE IF weightedScore < 0 THEN NEGATIVE
  ELSE NEUTRAL

\* the column of `${taskColLetter}${row}` and of `${scoreColLetter}${row}`
TaskColOf(col) == ColOf(indexToColumnLetter(col - 2))
ScoreColOf(col) == ColOf(indexToColumnLetter(col - 1))

\* a faulty variant: the totals cell is overwritten instead of added to
DailyTotalOverwrites(cell, weightedScore) == Num(weightedScore)

\* currentDailyTotal + weightedScore written to the totals row
DailyTotal(cell, weightedScore) == Num(OrDefault(cell, 0) + weightedScore)

\* a faulty variant: the use count is not incremented
TaskStatsNoCount(rec, weightedScore) ==
  [rec EXCEPT !.D = formatDateTime,
              !.G = Num(OrDefault(@, 0) + weightedScore)]

\* the statistics written to the resolved ledger row
TaskStats(rec, weightedScore) ==
  [rec EXCEPT !.D = formatDateTime,
              !.F = Num(OrDefault(@, 0) + 1),
              !.G = Num(OrDefault(@, 0) + weightedScore)]

processWeeklyScoreChange(w, row, col, newScore) ==
  LET taskName == w.val[TaskColOf(col), row]
      taskIndex == ResolveTaskIndex(w, taskName)
      weightedScore == WeightedScore(ResolveWeight(w, taskName), newScore)
      color == ScoreColor(weightedScore)
      \* "others" appended after the last known row
      t1 == IF CreatesOthers(w, taskName)
            THEN [w.tasksSheet EXCEPT ![taskIndex].A = "others",
                                      ![taskIndex].B = Num(1),
                                      ![taskIndex].C = formatDateTime]
            ELSE w.tasksSheet
      st1 == IF CreatesOthers(w, taskName)
             THEN [w.state EXCEPT !.taskl = taskIndex]
             ELSE w.state
      v1 == [w.val EXCEPT ![ScoreColOf(col), scoreLine] =
                             DailyTotal(@, weightedScore)]
      f1 == [w.fill EXCEPT ![ScoreColOf(col), row] = color,
                           ![TaskColOf(col), row] = color]
      w1 == [w EXCEPT !.tasksSheet = t1, !.state = st1, !.val = v1, !.fill = f1,
                      \* history only
                      !.entered[col] = @ + weightedScore]
      w2 == updateSummary(w1, PositivePart(weightedScore), NegativePart(weightedScore))
  IN IF NoTaskSelected(taskName) THEN w
     \* state.weekly.lastMonday.getDate() throws while lastMonday is null
     ELSE IF w.state.lastMonday = Blank THEN w
     ELSE [w2 EXCEPT !.tasksSheet[taskIndex] = TaskStats(@, weightedScore)]

\* the guard of handleCellChanged: a score column in the data rows
IsScoreCell(colIndex, row) ==
  colIndex \in SCORE_COLUMNS /\ row >= DATA_START_ROW /\ row <= lastTimeLine

handleCellChanged(w, address) ==
  LET parsed == parseAddress(address)
      scoreCell == w.val[parsed.colIndex, parsed.row]
  IN IF w.state.currentSheet # WEEKLY_SHEET THEN w
     ELSE IF ~IsScoreCell(parsed.colIndex, parsed.row) THEN w
     ELSE IF ~IsNum(scoreCell) THEN w
     ELSE processWeeklyScoreChange(w, parsed.row, parsed.colIndex, scoreCell[1])

\* --------------------------------------------------------------- week reset
EmptyOf(col) == IF col \in TASK_COLUMNS THEN "" ELSE Blank

HasTimeRows == \E r \in TimeRows : timeVal[r] # Blank

\* archiveWeekAutomatically: one CSV download when there is a row to export;
\* an error while the sheet is read is caught and logged
archiveWeekAutomatically(w) ==
  IF w.archiveFails THEN [w EXCEPT !.archiveErrors = @ + 1]
  ELSE IF HasTimeRows THEN [w EXCEPT !.archived = @ + 1]
  ELSE w

\* a faulty variant: the archive's error reaches the caller
ArchiveRethrowsError(w) == w.archiveFails

\* whether archiveWeekAutomatically throws: its catch block swallows the error
ArchiveRethrows(w) == FALSE

\* a data row's task and score are cleared when its score cell holds a value
ClearsRow(w, scoreCol, row) == w.val[scoreCol, row] # Blank

clearForNewWeek(w) ==
  [w EXCEPT
     \* history only
     !.entered = [c \in SCORE_COLUMNS |-> 0],
     !.fill = [c \in GridCols, r \in GridRows |-> NoFill],
     !.val = [c \in GridCols, r \in GridRows |->
                IF r = scoreLine THEN EmptyOf(c)
                ELSE IF ClearsRow(w, IF c \in SCORE_COLUMNS THEN c ELSE c + 1, r)
                     THEN EmptyOf(c)
                     ELSE w.val[c, r]]]

\* a faulty variant: B4 takes the year and month of today, not of the Monday
setNewWeekDatesMonthOfToday(w) ==
  LET newMonday == getMonday(today)
  IN [w EXCEPT
        !.dateCell = <<DateOf(today).y, DateOf(today).m>>,
        !.dayHeader = [c \in SCORE_COLUMNS |->
                         Num(DateOf(newMonday + ((c - 4) \div 2)).d)],
        !.state.lastMonday = Num(newMonday)]

\* a faulty variant: the week starts at today
setNewWeekDatesFromToday(w) ==
  [w EXCEPT
     !.dateCell = <<DateOf(today).y, DateOf(today).m>>,
     !.dayHeader = [c \in SCORE_COLUMNS |-> Num(DateOf(today + ((c - 4) \div 2)).d)],
     !.state.lastMonday = Num(today)]

setNewWeekDates(w) ==
  LET newMonday == getMonday(today)
  IN [w EXCEPT
        !.dateCell = <<DateOf(newMonday).y, DateOf(newMonday).m>>,
        !.dayHeader = [c \in SCORE_COLUMNS |->
                         Num(DateOf(newMonday + ((c - 4) \div 2)).d)],
        !.state.lastMonday = Num(newMonday)]

highlightCurrentDay(w) ==
  LET taskCol == w.state.dIndex * 2 + 3
      scoreCol == w.state.dIndex * 2 + 4
  IN [w EXCEPT !.hdrFill =
        [c \in GridCols |->
           IF c = ColOf(indexToColumnLetter(taskCol - 1))
              \/ c = ColOf(indexToColumnLetter(scoreCol - 1))
           THEN TODAY_HIGHLIGHT ELSE NoFill]]

\* a time cell as hours in 1/1440 h: a number up to 1 is a day fraction, a
\* number up to 24 is in hours, <<h, m>> is the text "h:mm"; -1 when skipped
TimeValue(cellTime) ==
  IF Len(cellTime) = 1
  THEN IF cellTime[1] >= 0 /\ cellTime[1] <= 1440 THEN cellTime[1] * 24
       ELSE IF cellTime[1] >= 0 /\ cellTime[1] <= 24 * 1440 THEN cellTime[1]
       ELSE 0 - 1
  ELSE IF Len(cellTime) = 2 THEN cellTime[1] * 1440 + cellTime[2] * 24
  ELSE 0 - 1

\* currentHour + currentMinutes / 60, in 1/1440 h
CurrentTimeDecimal == clock * 24

\* the scan of B5:B36: the row kept in bestRowIndex (-1 when none)
RECURSIVE BestRow(_, _, _)
BestRow(row, bestRow, bestTimeValue) ==
  IF row > lastTimeLine THEN bestRow
  ELSE IF row \notin TimeRows THEN BestRow(row + 1, bestRow, bestTimeValue)
  ELSE IF timeVal[row] # Blank
          /\ TimeValue(timeVal[row]) # 0 - 1
          /\ TimeValue(timeVal[row]) <= CurrentTimeDecimal + 144
          /\ TimeValue(timeVal[row]) > bestTimeValue
       THEN BestRow(row + 1, row, TimeValue(timeVal[row]))
       ELSE BestRow(row + 1, bestRow, bestTimeValue)

highlightCurrentTimeRow(w) ==
  LET row == BestRow(DATA_START_ROW, 0 - 1, 0 - 1)
      taskCol == ColOf(indexToColumnLetter(w.state.dIndex * 2 + 3 - 1))
      scoreCol == ColOf(indexToColumnLetter(w.state.dIndex * 2 + 4 - 1))
      cleared == [r \in TimeRows |-> NoFill]
  IN IF row = 0 - 1 THEN [w EXCEPT !.timeFill = cleared]
     ELSE IF w.val[scoreCol, row] = Blank
     THEN [w EXCEPT !.timeFill = [cleared EXCEPT ![row] = CURRENT_TIME],
                    !.fill[taskCol, row] = CURRENT_TIME,
                    !.fill[scoreCol, row] = CURRENT_TIME]
     ELSE [w EXCEPT !.timeFill = [cleared EXCEPT ![row] = CURRENT_TIME]]

\* Date.getDay() turned into 0 = Monday .. 6 = Sunday
DayIndex(n) == IF GetDay(n) = 0 THEN 6 ELSE GetDay(n) - 1

\* a faulty variant: any later day counts as a new week
IsNewWeekNextDay(diffDays) == diffDays >= 1

\* if (diffDays >= 7)
IsNewWeek(diffDays) == diffDays >= 7

\* a part of the B4 text that parseInt turns into NaN
NaNPart == 0 - 1

\* the anchor parsed from B4 and D4: new Date(year, month - 1, firstDay);
\* sheetLastMonday is set when the text has two parts, and is an Invalid Date
\* when a part is not a number
HasAnchor(w) == Len(w.dateCell) >= 2
AnchorIsDate(w) ==
  HasAnchor(w) /\ w.dateCell[1] # NaNPart /\ w.dateCell[2] # NaNPart
SheetLastMonday(w) ==
  DayNumber(w.dateCell[1], w.dateCell[2], OrDefault(w.dayHeader[4], 0))

initializeWeeklyOnOpen(w) ==
  LET \* daysBetween of an Invalid Date is NaN, and NaN >= 7 is false
      newWeek == AnchorIsDate(w) /\ IsNewWeek(daysBetween(SheetLastMonday(w), today))
      a == archiveWeekAutomatically(w)
      w1 == IF HasAnchor(w)
            THEN IF newWeek THEN setNewWeekDates(clearForNewWeek(a)) ELSE w
            ELSE setNewWeekDates(w)
      w2 == [w1 EXCEPT !.state.dIndex = DayIndex(today),
                       !.state.lastMonday = Num(getMonday(today))]
      w3 == highlightCurrentTimeRow(highlightCurrentDay(w2))
  IN \* the first context.sync throws: nothing written, lastInitDate not set
     IF w.weeklyInitFails THEN w
     ELSE IF newWeek /\ ArchiveRethrows(a) THEN a
     ELSE [w3 EXCEPT !.state.lastInitDate = Num(formatDateYYYYMMDD(today))]

startNewWeekFromUI(w) ==
  highlightCurrentTimeRow(highlightCurrentDay(setNewWeekDates(clearForNewWeek(w))))

\* -------------------------------------------------------------- random fill
\* the non-empty names of Tasks!A4:A(taskl), in sheet order
RECURSIVE TaskNames(_, _)
TaskNames(w, row) ==
  IF row > w.state.taskl \/ row \notin TasksRows THEN <<>>
  ELSE IF w.tasksSheet[row].A # "" THEN <<w.tasksSheet[row].A>> \o TaskNames(w, row + 1)
  ELSE TaskNames(w, row + 1)

\* a faulty variant: the slot's task cell is not looked at
FillsSlotAnyTask(timeCell, taskCell) == timeCell # Blank

\* hasTime && !hasTask
FillsSlot(timeCell, taskCell) == timeCell # Blank /\ taskCell = ""

\* Math.floor(Math.random() * tasks.length) for the slot in `row`: the draws
\* of one run are the numbers seed + row
RandomIndex(seed, row, length) == (seed + row) % length

randomPick(w, seed) ==
  LET tasks == TaskNames(w, TASKS_START_ROW)
      taskColumn == w.state.dIndex * 2 + 3
      taskCol == ColOf(indexToColumnLetter(taskColumn - 1))
  IN IF tasks = <<>> THEN w
     ELSE [w EXCEPT !.val =
             [c \in GridCols, r \in GridRows |->
                IF c = taskCol /\ r \in TimeRows /\ FillsSlot(timeVal[r], w.val[c, r])
                THEN tasks[RandomIndex(seed, r, Len(tasks)) + 1]
                ELSE w.val[c, r]]]

\* ------------------------------------------------------------------- habits
\* the first header column whose day number is today's, else -1
findHabitsDayIndex(w) ==
  LET hits == {i \in HabitDays : w.habitsHeader[i] = Num(DateOf(today).d)}
  IN IF hits = {} THEN 0 - 1 ELSE Min(hits)

\* rowCount of the Habits sheet's used range (its first used row is row 1)
HabitsRowCount(w) ==
  Max({HABITS_DATA_START_ROW - 1} \cup {r \in HabitRows : w.habitsSheet[r].A # ""})

initializeHabitsSheet(w) ==
  [w EXCEPT !.state.habitsLastRow =
               IF HabitsRowCount(w) > HABITS_DATA_START_ROW
               THEN HabitsRowCount(w) ELSE HABITS_DATA_START_ROW,
            !.state.currentDayIndex = findHabitsDayIndex(w)]

\* a faulty variant: the walk does not stop at a day that was not done
RECURSIVE StreakThroughGaps(_, _)
StreakThroughGaps(days, d) ==
  IF d < 0 THEN 0
  ELSE IF IsNum(days[d]) /\ days[d][1] # 0 THEN 1 + StreakThroughGaps(days, d - 1)
  ELSE StreakThroughGaps(days, d - 1)

\* consecutive done days before column d + 1, walking backward from d
RECURSIVE Streak(_, _)
Streak(days, d) ==
  IF d < 0 THEN 0
  ELSE IF IsNum(days[d]) /\ days[d][1] # 0 THEN 1 + Streak(days, d - 1)
  ELSE 0

\* baseScore * 1.1^streak, in 1/Unit (exact while streak <= MaxStreak)
HabitScore(baseCell, streak) ==
  OrDefault(baseCell, 1) * Pow(11, streak) * Pow(10, MaxStreak - streak)

\* a faulty variant: the count is set to 1
HabitCountReset(cell) == Num(1)

\* (parseInt(cell) || 0) + 1
HabitCount(cell) == Num(OrDefault(cell, 0) + 1)

\* a faulty variant: a missing day index is not checked
DayNotFoundNever(currentDayIndex) == FALSE

\* if (state.habits.currentDayIndex < 0)
DayNotFound(currentDayIndex) == currentDayIndex < 0

recordHabitDone(w, row) ==
  LET rec == w.habitsSheet[row]
      cur == w.state.currentDayIndex
      streak == Streak(rec.days, cur - 1)
      weightedScore == HabitScore(rec.C, streak)
      \* dayColumn is a day column whenever currentDayIndex was found
      rec1 == [rec EXCEPT !.days = IF cur \in HabitDays
                                   THEN [@ EXCEPT ![cur] = HabitCount(@)] ELSE @,
                          !.R = HabitCount(@),
                          !.fillB = POSITIVE]
  IN IF DayNotFound(cur) THEN [w EXCEPT !.habitStatus = "error"]
     ELSE IF rec.A = "" THEN w
     ELSE updateSummary([w EXCEPT !.habitsSheet[row] = rec1,
                                  !.habitStatus = "success"], weightedScore, 0)

\* a faulty variant: the header is rewritten, the counts are kept
refreshHabitsDatesKeepsCounts(w) ==
  LET startDate == getMonday(today)
      w1 == [w EXCEPT
               !.habitsDateCell = <<DateOf(startDate).y, DateOf(startDate).m>>,
               !.habitsHeader = [i \in HabitDays |-> Num(DateOf(startDate + i).d)]]
  IN [w1 EXCEPT !.state.currentDayIndex = findHabitsDayIndex(w1)]

\* refreshHabitsDates: a new 14-day window from this week's Monday
refreshHabitsDates(w) ==
  LET startDate == getMonday(today)
      w1 == [w EXCEPT
               !.habitsDateCell = <<DateOf(startDate).y, DateOf(startDate).m>>,
               !.habitsHeader = [i \in HabitDays |-> Num(DateOf(startDate + i).d)],
               !.habitsSheet = [r \in HabitRows |->
                  IF r <= w.state.habitsLastRow
                  THEN [w.habitsSheet[r] EXCEPT !.days = [d \in HabitDays |-> Blank]]
                  ELSE w.habitsSheet[r]]]
  IN [w1 EXCEPT !.state.currentDayIndex = findHabitsDayIndex(w1)]

\* a click on a habit name: column A of a data row up to lastRow
handleHabitsSelection(w, column, row) ==
  IF column = <<0>> /\ row >= HABITS_DATA_START_ROW /\ row <= w.state.habitsLastRow
  THEN recordHabitDone(w, row)
  ELSE w

\* ------------------------------------------------------- session and router
initializeTasksSheet(w) ==
  LET n == RowCount([r \in TasksRows |-> w.tasksSheet[r].A], TasksRows, "")
  IN IF n = 0 THEN w ELSE [w EXCEPT !.state.taskl = n]

initializeSummarySheet(w) ==
  LET n == RowCount([r \in SummaryRows |-> w.summarySheet[r].A], SummaryRows, Blank)
  IN IF n = 0 THEN w ELSE [w EXCEPT !.state.summaryL = n]

\* state.js: the session state of a freshly loaded add-in
InitialState ==
  [currentSheet |-> "", currentDayIndex |-> 0 - 1, habitsLastRow |-> 4,
   dIndex |-> 0, lastMonday |-> Blank, taskl |-> 4, summaryL |-> 1,
   lastInitDate |-> Blank]

Sheets == {WEEKLY_SHEET, HABITS_SHEET}
\* the sheets that can carry cell-changed handlers
HandlerSheets == Sheets \cup {TASKS_SHEET}

\* a page load: fresh session, the Weekly sheet activated, the four sheets
\* initialised, one onChanged handler on the active sheet
initializeAddin(w) ==
  LET w0 == [w EXCEPT !.state = [InitialState EXCEPT !.currentSheet = WEEKLY_SHEET],
                      !.changed = [s \in HandlerSheets |-> 0]]
      w1 == initializeSummarySheet(initializeTasksSheet(
              initializeWeeklyOnOpen(initializeHabitsSheet(w0))))
  IN [w1 EXCEPT !.changed[WEEKLY_SHEET] = @ + 1]

\* a faulty variant: every activation initialises the Weekly sheet
NeedsInitAlways(lastInit, todayStr) == TRUE

\* if (lastInit !== today)
NeedsInit(lastInit, todayStr) == lastInit # todayStr

handleSheetActivated(w, newSheetName) ==
  LET w1 == IF newSheetName = WEEKLY_SHEET
            THEN IF NeedsInit(w.state.lastInitDate, Num(formatDateYYYYMMDD(today)))
                 THEN initializeWeeklyOnOpen(w)
                 ELSE highlightCurrentTimeRow(w)
            ELSE w
  IN IF w1.state.currentSheet # newSheetName
     THEN [w1 EXCEPT !.state.currentSheet = newSheetName,
                     !.changed[newSheetName] = @ + 1]
     ELSE w1

\* refreshCurrentSheet: the handlers are registered again for the active sheet;
\* the selection handler replaces the previous one, the cell-changed handler
\* is added to those already there
refreshCurrentSheet(w) ==
  [w EXCEPT !.changed[w.state.currentSheet] = @ + 1]

\* ui.js addTask: a new row after the used rows of column A
addTask(w, name, weight) ==
  LET newRow == RowCount([r \in TasksRows |-> w.tasksSheet[r].A], TasksRows, "") + 1
  IN [w EXCEPT !.tasksSheet[newRow].A = name,
               !.tasksSheet[newRow].B = Num(OrDefault(weight, 1)),
               !.tasksSheet[newRow].C = formatDateTime,
               !.state.taskl = newRow]

\* ------------------------------------------------------------ initial state
\* the cells the user types into
EditCols == {d * 2 + 4 : d \in 0..MaxEditDay}
EditRows == DATA_START_ROW..(DATA_START_ROW + MaxEditRow)
\* what the user types into a score cell: 0 or 0.6
ScoreInputs == {Num(0), Num((3 * Unit) \div 5)}
\* the day advances by one day or by a week
DayJumps == {1, 7}
\* the days of December: the same day of the month comes again after them
DaysInMonth == 31
\* what the user leaves in B4: nothing, one word, two words that are no numbers
AnchorInputs == {Blank, <<NaNPart>>, <<NaNPart, NaNPart>>}

BlankTask == [A |-> "", B |-> Blank, C |-> Blank, D |-> Blank, F |-> Blank, G |-> Blank]
Task(name, weight) == [BlankTask EXCEPT !.A = name, !.B = Num(weight)]

\* the Tasks sheet: a title in A1, tasks from row 4, with or without 'others'
InitTasks(withOthers) ==
  [r \in TasksRows |->
     IF r = 1 THEN [BlankTask EXCEPT !.A = "Tasks"]
     ELSE IF r = TASKS_START_ROW THEN Task("Deep Work", 2)
     ELSE IF r = TASKS_START_ROW + 1 THEN Task("Chore", 0 - 1)
     ELSE IF r = TASKS_START_ROW + 2 THEN Task("Rest", 0)
     ELSE IF r = TASKS_START_ROW + 3 THEN Task("Walk", 1)
     ELSE IF r = TASKS_START_ROW + 4 /\ withOthers THEN Task("others", 0)
     ELSE BlankTask]

BlankSummary == [A |-> Blank, D |-> Blank, E |-> Blank, F |-> Blank]

\* the Summary sheet: no entries yet, with or without a heading in A1
InitSummary(withHeading) ==
  [r \in SummaryRows |->
     IF r = 1 /\ withHeading THEN [BlankSummary EXCEPT !.A = NaNText]
     ELSE BlankSummary]

\* the habits window was refreshed on the Monday a week before the base
\* Monday; "Exercise" was done on the last two days before the base Monday
InitWindowStart == 0 - DAYS_IN_WEEK

InitHabits ==
  [r \in HabitRows |->
     [A |-> IF r = HABITS_DATA_START_ROW THEN "Exercise"
            ELSE IF r = HABITS_DATA_START_ROW + 1 THEN "Snack"
            ELSE IF r = HABITS_DATA_START_ROW + 2 THEN "Idle" ELSE "",
      C |-> IF r = HABITS_DATA_START_ROW THEN Num(5)
            ELSE IF r = HABITS_DATA_START_ROW + 1 THEN Num(0 - 1)
            ELSE IF r = HABITS_DATA_START_ROW + 2 THEN Num(0) ELSE Blank,
      \* Exercise: 0 on Saturday week, done on the last two days; Idle: done
      \* the day before yesterday, not yesterday
      days |-> [d \in HabitDays |->
                  IF r = HABITS_DATA_START_ROW
                     /\ d \in {DAYS_IN_WEEK - 2, DAYS_IN_WEEK - 1}
                  THEN Num(1)
                  ELSE IF r = HABITS_DATA_START_ROW /\ d = DAYS_IN_WEEK - 3
                  THEN Num(0)
                  ELSE IF r = HABITS_DATA_START_ROW + 2 /\ d = DAYS_IN_WEEK - 2
                  THEN Num(1) ELSE Blank],
      R |-> IF r = HABITS_DATA_START_ROW THEN Num(2) ELSE Blank,
      fillB |-> NoFill]]

InitVal ==
  [c \in GridCols, r \in GridRows |->
     IF c = 3 /\ r = DATA_START_ROW THEN "Deep Work"
     ELSE IF c = 5 /\ r = DATA_START_ROW THEN "Nap"
     ELSE IF c = 5 /\ r = DATA_START_ROW + 1 THEN "Rest"
     ELSE EmptyOf(c)]

\* the workbook as it is opened, before the add-in has run
Workbook(withOthers, withHeading) ==
  [val |-> InitVal,
   fill |-> [c \in GridCols, r \in GridRows |-> NoFill],
   dateCell |-> <<2024, 12>>,
   dayHeader |-> [c \in SCORE_COLUMNS |-> Num(9 + ((c - 4) \div 2))],
   hdrFill |-> [c \in GridCols |-> NoFill],
   timeFill |-> [r \in TimeRows |-> NoFill],
   tasksSheet |-> InitTasks(withOthers),
   summarySheet |-> InitSummary(withHeading),
   habitsDateCell |-> <<DateOf(InitWindowStart).y, DateOf(InitWindowStart).m>>,
   habitsHeader |-> [d \in HabitDays |-> Num(DateOf(InitWindowStart + d).d)],
   habitsSheet |-> InitHabits,
   state |-> InitialState,
   changed |-> [s \in HandlerSheets |-> 0],
   archived |-> 0,
   archiveErrors |-> 0,
   habitStatus |-> "",
   archiveFails |-> FALSE, summaryFails |-> FALSE, weeklyInitFails |-> FALSE,
   summaryMissing |-> FALSE,
   entered |-> [c \in SCORE_COLUMNS |-> 0]]

Init ==
  /\ today = 0
  /\ clock = 520
  \* 8:00, 8:30, .. in the first time rows; the last time row has no time
  /\ timeVal = [r \in TimeRows |->
                  IF r = lastTimeLine THEN Blank
                  ELSE Num(480 + 30 * (r - DATA_START_ROW))]
  /\ \E withOthers \in BOOLEAN, withHeading \in BOOLEAN :
       \E w \in {initializeAddin(Workbook(withOthers, withHeading))} :
          /\ val = w.val
          /\ fill = w.fill
          /\ dateCell = w.dateCell
          /\ dayHeader = w.dayHeader
          /\ hdrFill = w.hdrFill
          /\ timeFill = w.timeFill
          /\ tasksSheet = w.tasksSheet
          /\ summarySheet = w.summarySheet
          /\ habitsDateCell = w.habitsDateCell
          /\ habitsHeader = w.habitsHeader
          /\ habitsSheet = w.habitsSheet
          /\ state = w.state
          /\ changed = w.changed
          /\ archived = w.archived
          /\ archiveErrors = w.archiveErrors
          /\ habitStatus = w.habitStatus
          /\ entered = w.entered
  /\ queue = <<>>
  /\ steps = 0
  /\ last = [op |-> "load", col |-> 0, row |-> 0, wasSet |-> FALSE]
  /\ probe = NoCall
  /\ inflight = <<>>

\* ------------------------------------------------------------------ actions
env == <<today, clock, timeVal, probe, inflight>>

\* the user picks a task in a task cell of the Weekly sheet
SelectTask(c, r, name) ==
  /\ steps < MaxSteps /\ queue = <<>>
  /\ state.currentSheet = WEEKLY_SHEET
  /\ val[c - 1, r] = ""
  /\ Commit([Cur EXCEPT !.val[c - 1, r] = name])
  /\ steps' = steps + 1
  /\ last' = [op |-> "task", col |-> c - 1, row |-> r, wasSet |-> FALSE]
  /\ UNCHANGED <<env, queue>>

\* the user types v into a score cell of the Weekly sheet: the host raises
\* the cell-changed event to every handler registered on the sheet
EditScore(c, r, v) ==
  /\ steps < MaxSteps /\ queue = <<>>
  /\ state.currentSheet = WEEKLY_SHEET
  /\ Commit([Cur EXCEPT !.val[c, r] = v])
  /\ queue' = [i \in 1..changed[WEEKLY_SHEET] |->
                 [column |-> indexToColumnLetter(c - 1), row |-> r,
                  sheet |-> WEEKLY_SHEET, own |-> FALSE]]
  /\ steps' = steps + 1
  /\ last' = [op |-> "edit", col |-> c, row |-> r, wasSet |-> val[c, r] # Blank]
  /\ UNCHANGED env

\* one queued invocation of handleCellChanged runs to completion
CellChanged ==
  /\ queue # <<>>
  /\ Commit(handleCellChanged(Cur, Head(queue)))
  /\ queue' = Tail(queue)
  /\ last' = [last EXCEPT !.op = "changed"]
  /\ UNCHANGED <<env, steps>>

\* the user switches to another sheet
SheetActivated(s) ==
  /\ steps < MaxSteps /\ queue = <<>>
  /\ s # state.currentSheet
  /\ \E f \in BOOLEAN :
       Commit(handleSheetActivated([Cur EXCEPT !.archiveFails = f], s))
  /\ steps' = steps + 1
  /\ last' = [op |-> "activate", col |-> 0, row |-> 0, wasSet |-> FALSE]
  /\ UNCHANGED <<env, queue>>

\* the user clicks a habit name on the Habits sheet
HabitClick(r) ==
  /\ steps < MaxSteps /\ queue = <<>>
  /\ state.currentSheet = HABITS_SHEET
  /\ Streak(habitsSheet[r].days, state.currentDayIndex - 1) <= MaxStreak
  /\ Commit(handleHabitsSelection(Cur, <<0>>, r))
  /\ steps' = steps + 1
  /\ last' = [op |-> "habit", col |-> 1, row |-> r, wasSet |-> FALSE]
  /\ UNCHANGED <<env, queue>>

\* midnight passes
NextDay(k) ==
  /\ steps < MaxSteps /\ queue = <<>>
  /\ today + k <= MaxDay
  /\ today' = today + k
  /\ steps' = steps + 1
  /\ last' = [op |-> "day", col |-> 0, row |-> 0, wasSet |-> FALSE]
  /\ UNCHANGED <<wb, ledgers, habits, state, changed, queue, archived,
                 archiveErrors, habitStatus, clock, entered, probe, inflight>>

\* the workbook is left alone for a month
NextMonth ==
  /\ steps < MaxSteps /\ queue = <<>>
  /\ today <= MaxDay
  /\ today' = today + DaysInMonth
  /\ steps' = steps + 1
  /\ last' = [op |-> "day", col |-> 0, row |-> 0, wasSet |-> FALSE]
  /\ UNCHANGED <<wb, ledgers, habits, state, changed, queue, archived,
                 archiveErrors, habitStatus, clock, entered, probe, inflight>>

\* the task pane is reloaded: the session state is rebuilt
Reload ==
  /\ steps < MaxSteps /\ queue = <<>>
  /\ \E f \in BOOLEAN : Commit(initializeAddin([Cur EXCEPT !.archiveFails = f]))
  /\ steps' = steps + 1
  /\ last' = [op |-> "load", col |-> 0, row |-> 0, wasSet |-> FALSE]
  /\ UNCHANGED <<env, queue>>

\* the New Week button
StartNewWeek ==
  /\ steps < MaxSteps /\ queue = <<>>
  /\ Commit(startNewWeekFromUI(Cur))
  /\ steps' = steps + 1
  /\ last' = [op |-> "newweek", col |-> 0, row |-> 0, wasSet |-> FALSE]
  /\ UNCHANGED <<env, queue>>

\* the Random Pick button
RandomPick(seed) ==
  /\ steps < MaxSteps /\ queue = <<>>
  /\ Commit(randomPick(Cur, seed))
  /\ steps' = steps + 1
  /\ last' = [op |-> "random", col |-> 0, row |-> 0, wasSet |-> FALSE]
  /\ UNCHANGED <<env, queue>>

\* the Refresh Dates button of the Habits sheet
RefreshHabits ==
  /\ steps < MaxSteps /\ queue = <<>>
  /\ Commit(refreshHabitsDates(Cur))
  /\ steps' = steps + 1
  /\ last' = [op |-> "refresh", col |-> 0, row |-> 0, wasSet |-> FALSE]
  /\ UNCHANGED <<env, queue>>

\* the user overwrites the anchor cell B4 of the Weekly sheet
EditAnchor(v) ==
  /\ steps < MaxSteps /\ queue = <<>>
  /\ state.currentSheet = WEEKLY_SHEET
  /\ dateCell # v
  /\ Commit([Cur EXCEPT !.dateCell = v])
  /\ steps' = steps + 1
  /\ last' = [op |-> "anchor", col |-> 2, row |-> 4, wasSet |-> FALSE]
  /\ UNCHANGED <<env, queue>>

\* the Add Task form
AddTask(name, weight) ==
  /\ steps < MaxSteps /\ queue = <<>>
  \* the bound on the ledger: the new row and a later 'others' row fit
  /\ RowCount([r \in TasksRows |-> tasksSheet[r].A], TasksRows, "") + 2 \in TasksRows
  /\ Commit(addTask(Cur, name, weight))
  /\ steps' = steps + 1
  /\ last' = [op |-> "addtask", col |-> 0, row |-> 0, wasSet |-> FALSE]
  /\ UNCHANGED <<env, queue>>

Next ==
  \/ \E c \in EditCols, r \in EditRows, n \in {"Chore", "Walk"} : SelectTask(c, r, n)
  \/ \E c \in EditCols, r \in EditRows, v \in ScoreInputs : EditScore(c, r, v)
  \/ EditScore(4, DATA_START_ROW, NaNText)
  \/ CellChanged
  \/ \E s \in Sheets : SheetActivated(s)
  \/ \E r \in HabitRows : HabitClick(r)
  \/ \E k \in DayJumps : NextDay(k)
  \/ NextMonth
  \/ Reload
  \/ \E seed \in 0..MaxSeed : RandomPick(seed)
  \/ RefreshHabits
  \/ \E v \in AnchorInputs : EditAnchor(v)
  \/ StartNewWeek
  \/ AddTask("Read", Num(3))

Spec == Init /\ [][Next]_vars

\* ------------------------------------------- handlers and their registration
\* the Refresh button of the task pane
RefreshSheet ==
  /\ steps < MaxSteps /\ queue = <<>>
  /\ Commit(refreshCurrentSheet(Cur))
  /\ steps' = steps + 1
  /\ last' = [op |-> "refreshSheet", col |-> 0, row |-> 0, wasSet |-> FALSE]
  /\ UNCHANGED <<env, queue>>

NextHandlers ==
  \/ \E s \in Sheets : SheetActivated(s)
  \/ RefreshSheet
  \/ \E c \in EditCols, r \in EditRows, v \in ScoreInputs : EditScore(c, r, v)
  \/ CellChanged

SpecHandlers == Init /\ [][NextHandlers]_vars

\* ------------------------------------------- initialisation of the Weekly sheet
\* a page load during which initializeWeeklyOnOpen throws: initializeAddin
\* logs "Weekly sheet init skipped" and goes on
ReloadWeeklyInitFails ==
  /\ steps < MaxSteps /\ queue = <<>>
  /\ Commit(initializeAddin([Cur EXCEPT !.weeklyInitFails = TRUE]))
  /\ steps' = steps + 1
  /\ last' = [op |-> "loadFailed", col |-> 0, row |-> 0, wasSet |-> FALSE]
  /\ UNCHANGED <<env, queue>>

NextInit ==
  \/ \E s \in Sheets : SheetActivated(s)
  \/ \E k \in DayJumps : NextDay(k)
  \/ Reload
  \/ ReloadWeeklyInitFails
  \/ \E v \in AnchorInputs : EditAnchor(v)
  \/ \E c \in EditCols, r \in EditRows, v \in ScoreInputs : EditScore(c, r, v)
  \/ CellChanged

SpecInit == Init /\ [][NextInit]_vars

\* ------------------------------------------------------ the time column
\* what the user types into a time cell: nothing, 8:30 as a fraction of the
\* day, 8:30 as the text "8:30", 9:00 as a fraction of the day
TimeInputs == {Blank, Num(510), <<8, 30>>, Num(540)}

\* the user types a time into a cell of column B of the Weekly sheet; the
\* cell-changed handler ignores the event, column B being no score column
EditTime(r, v) ==
  /\ steps < MaxSteps /\ queue = <<>>
  /\ state.currentSheet = WEEKLY_SHEET
  /\ timeVal[r] # v
  /\ timeVal' = [timeVal EXCEPT ![r] = v]
  /\ steps' = steps + 1
  /\ last' = [op |-> "time", col |-> 2, row |-> r, wasSet |-> FALSE]
  /\ UNCHANGED <<val, fill, dateCell, dayHeader, hdrFill, timeFill, ledgers,
                 habits, state, changed, queue, archived, archiveErrors,
                 habitStatus, today, clock, entered, probe, inflight>>

NextTime ==
  \/ \E r \in TimeRows, v \in TimeInputs : EditTime(r, v)
  \/ \E s \in Sheets : SheetActivated(s)

SpecTime == Init /\ [][NextTime]_vars

\* ------------------------------------------------ failures in the pipeline
\* one queued invocation of handleCellChanged runs while the Summary sheet
\* cannot be read
CellChangedSummaryFails ==
  /\ queue # <<>>
  /\ Commit(handleCellChanged([Cur EXCEPT !.summaryFails = TRUE], Head(queue)))
  /\ queue' = Tail(queue)
  /\ last' = [last EXCEPT !.op = "summaryFailed"]
  /\ UNCHANGED <<env, steps>>

NextFail ==
  \/ \E c \in EditCols, r \in EditRows, v \in ScoreInputs : EditScore(c, r, v)
  \/ CellChanged
  \/ CellChangedSummaryFails

SpecFail == Init /\ [][NextFail]_vars

\* ------------------------------------------------- calls of the utilities
book == <<val, fill, dateCell, dayHeader, hdrFill, timeVal, timeFill, tasksSheet,
          summarySheet, habitsDateCell, habitsHeader, habitsSheet, state, changed,
          queue, archived, archiveErrors, habitStatus, today, clock, steps, last,
          entered, inflight>>

SeqsUpTo(chars, n) == UNION {[1..k -> chars] : k \in 0..n}
ColumnStrings == SeqsUpTo(0..MaxLetter, MaxLetters) \ {<<>>}
AddressChars == (0..MaxLetter) \cup {Digit(d) : d \in 1..MaxDigit} \cup {OtherChar}
AddressTexts == SeqsUpTo(AddressChars, MaxAddressLen)

\* columnLetterToIndex(indexToColumnLetter(i))
CallIndexToLetter(i) ==
  /\ probe = NoCall
  /\ probe' = [fn |-> "indexToColumnLetter", arg |-> i,
               out |-> indexToColumnLetter(i),
               back |-> columnLetterToIndex(indexToColumnLetter(i))]
  /\ UNCHANGED book

\* indexToColumnLetter(columnLetterToIndex(s))
CallLetterToIndex(s) ==
  /\ probe = NoCall
  /\ probe' = [fn |-> "columnLetterToIndex", arg |-> s,
               out |-> columnLetterToIndex(s),
               back |-> indexToColumnLetter(columnLetterToIndex(s))]
  /\ UNCHANGED book

\* parseAddress(text)
CallParseAddress(text) ==
  /\ probe = NoCall
  /\ probe' = [fn |-> "parseAddress", arg |-> text,
               out |-> parseAddressText(text), back |-> <<>>]
  /\ UNCHANGED book

NextUtil ==
  \/ \E i \in 0..MaxIndex : CallIndexToLetter(i)
  \/ \E s \in ColumnStrings : CallLetterToIndex(s)
  \/ \E text \in AddressTexts : CallParseAddress(text)

SpecUtil == Init /\ [][NextUtil]_vars

\* ------------------------------------------------------------------- claims
\* The cell-changed invocation at the head of the queue, and whether the
\* pipeline processes it: a numeric score in a score cell of the data rows of
\* the Weekly sheet, with a task chosen in the cell to its left.
EvCol == ColOf(Head(queue).column)
EvRow == Head(queue).row
EvTask == val[EvCol - 1, EvRow]
EvRaw == val[EvCol, EvRow][1]
IsRun == queue # <<>> /\ queue' = Tail(queue)
Reaches ==
  /\ queue # <<>>
  /\ state.currentSheet = WEEKLY_SHEET
  /\ EvCol \in SCORE_COLUMNS /\ EvRow >= DATA_START_ROW /\ EvRow <= lastTimeLine
  /\ IsNum(val[EvCol, EvRow])
Processes == Reaches /\ EvTask # "" /\ state.lastMonday # Blank
\* a cell read as a number, the empty cell being 0
N(cell) == IF IsNum(cell) THEN cell[1] ELSE 0
Total(c) == N(val[c, scoreLine])
TotalAfter(c) == N(val'[c, scoreLine])
\* the weighted score that the invocation applied
Applied == entered'[EvCol] - entered[EvCol]
\* the ledger rows named n
Named(sheet, n) == {r \in TasksRows : sheet[r].A = n}

C2_WeightTimesRaw ==
  [][(IsRun /\ Processes)
       => \A r \in TasksRows :
            (tasksSheet[r].A = EvTask /\ IsNum(tasksSheet[r].B))
              => TotalAfter(EvCol) = Total(EvCol) + tasksSheet[r].B[1] * EvRaw]_vars

\* C3: a later edit of a score cell that already held a value is not applied:
\* it changes neither the totals row nor the Summary nor the Tasks ledger.
C3_ScoreImmutable ==
  [][(IsRun /\ last.wasSet)
       => /\ \A c \in SCORE_COLUMNS : val'[c, scoreLine] = val[c, scoreLine]
          /\ UNCHANGED <<summarySheet, tasksSheet>>]_vars

\* C4: when the task cell left of the edited score cell is empty, the pipeline
\* writes nothing: totals row, cell colours, Summary and Tasks ledger and the
\* session counters stay as they are.
C4_NoTaskNoWrite ==
  [][(IsRun /\ Reaches /\ EvTask = "")
       => UNCHANGED <<val, fill, summarySheet, tasksSheet, state, entered>>]_vars

\* a numeric score was handled in a row whose task cell is empty
C4_Witness ==
  /\ last.op = "changed"
  /\ state.currentSheet = WEEKLY_SHEET
  /\ IsNum(val[last.col, last.row])
  /\ val[last.col - 1, last.row] = ""

TodayKey == Num(formatDateYYYYMMDD(today))
Plus(x) == IF x > 0 THEN x ELSE 0
Minus(x) == IF x < 0 THEN x ELSE 0

C6_TotalIsSum ==
  \A r \in SummaryRows :
    IsNum(summarySheet[r].A)
      => N(summarySheet[r].F) = N(summarySheet[r].D) + N(summarySheet[r].E)

\* C7: the Summary ledger is append-only with unique date keys: no step
\* changes or removes the date key of a row that has one, and no two rows
\* carry the same date key.
C7_SummaryAppendOnly ==
  [][/\ \A r \in SummaryRows :
          IsNum(summarySheet[r].A) => summarySheet'[r].A = summarySheet[r].A
     /\ \A r, q \in SummaryRows :
          (IsNum(summarySheet'[r].A) /\ summarySheet'[r].A = summarySheet'[q].A)
            => r = q]_vars

\* C8: an invocation that processes an entry adds 1 to the use count and the
\* weighted score to the cumulative score of the resolved ledger row, stamps
\* its last-used time, and leaves name, weight, count and cumulative score of
\* every other ledger row as they were.
C8_LedgerRowUpdated ==
  [][(IsRun /\ Processes)
       => \E i \in {ResolveTaskIndex(Cur, EvTask)} :
            /\ N(tasksSheet'[i].F) = N(tasksSheet[i].F) + 1
            /\ N(tasksSheet'[i].G) = N(tasksSheet[i].G) + Applied
            /\ tasksSheet'[i].D = formatDateTime
            /\ \A r \in TasksRows \ {i} :
                 /\ tasksSheet'[r].A = tasksSheet[r].A
                 /\ tasksSheet'[r].B = tasksSheet[r].B
                 /\ tasksSheet'[r].F = tasksSheet[r].F
                 /\ tasksSheet'[r].G = tasksSheet[r].G]_vars

\* a ledger row was used twice and holds a non-zero cumulative score
C8_Witness ==
  /\ last.op = "changed"
  /\ \E r \in TasksRows :
       /\ tasksSheet[r].A = val[last.col - 1, last.row]
       /\ N(tasksSheet[r].F) = 2 /\ N(tasksSheet[r].G) # 0

\* C9: an entry whose task name is not in the Tasks ledger is charged to the
\* row named 'others' with that row's weight; when there is no such row one is
\* appended with weight 1; afterwards the ledger has exactly one 'others' row
\* and the name and weight of every row that existed are unchanged.
C9_OthersFallback ==
  [][(IsRun /\ Processes /\ Named(tasksSheet, EvTask) = {})
       => /\ \A r \in Named(tasksSheet, "others") :
               /\ IsNum(tasksSheet[r].B)
               /\ TotalAfter(EvCol) = Total(EvCol) + tasksSheet[r].B[1] * EvRaw
               /\ N(tasksSheet'[r].F) = N(tasksSheet[r].F) + 1
          /\ Named(tasksSheet, "others") = {}
               => /\ TotalAfter(EvCol) = Total(EvCol) + EvRaw
                  /\ \E r \in Named(tasksSheet', "others") :
                       tasksSheet'[r].B = Num(1)
          /\ Cardinality(Named(tasksSheet', "others")) = 1
          /\ \A r \in TasksRows :
               tasksSheet[r].A # ""
                 => /\ tasksSheet'[r].A = tasksSheet[r].A
                    /\ tasksSheet'[r].B = tasksSheet[r].B]_vars

\* C10: a score of 0 on a task of weight 1 is applied as weighted score 0,
\* colours the score cell and the task cell neutral, and leaves every
\* positive and negative Summary cell unchanged.
C10_ZeroIsNeutral ==
  [][(IsRun /\ Processes /\ EvRaw = 0
        /\ \E r \in Named(tasksSheet, EvTask) : tasksSheet[r].B = Num(1))
       => /\ Applied = 0
          /\ TotalAfter(EvCol) = Total(EvCol)
          /\ fill'[EvCol, EvRow] = NEUTRAL
          /\ fill'[EvCol - 1, EvRow] = NEUTRAL
          /\ \A r \in SummaryRows :
               /\ summarySheet'[r].D = summarySheet[r].D
               /\ summarySheet'[r].E = summarySheet[r].E]_vars

\* a score of 0 was processed for the weight-1 task "Walk"
C10_Witness ==
  /\ last.op = "changed"
  /\ val[last.col, last.row] = Num(0)
  /\ val[last.col - 1, last.row] = "Walk"
  /\ fill[last.col, last.row] = NEUTRAL
  /\ fill[last.col - 1, last.row] = NEUTRAL
  /\ \E r \in SummaryRows : summarySheet[r].A = TodayKey

\* The step is a user event of the kind `op`.
IsStep(op) == steps' = steps + 1 /\ last'.op = op
\* The step runs initializeWeeklyOnOpen: a page load, or an activation of the
\* Weekly sheet on a day it was not yet initialised on.
WeeklyInitRuns ==
  \/ IsStep("load")
  \/ /\ IsStep("activate")
     /\ state'.currentSheet = WEEKLY_SHEET
     /\ state.lastInitDate # TodayKey
\* days from the anchor stored in B4 and D4 to today
AnchorAge == daysBetween(SheetLastMonday(Cur), today)
\* after the step, B4 and the seven day headers describe the week of `monday`
AnchorAfterIs(monday) ==
  /\ dateCell' = <<DateOf(monday).y, DateOf(monday).m>>
  /\ \A c \in SCORE_COLUMNS :
       dayHeader'[c] = Num(DateOf(monday + ((c - 4) \div 2)).d)
DataRows == {r \in GridRows : r >= DATA_START_ROW /\ r <= lastTimeLine}

\* C11: when the Weekly initialisation runs with an anchor that is 7 or more
\* days before today, the anchor and the seven day headers afterwards are
\* those of the Monday of today's week, and so is the session's lastMonday.
C11_RolloverSetsMonday ==
  [][(WeeklyInitRuns /\ AnchorIsDate(Cur) /\ AnchorAge >= 7)
       => /\ AnchorAfterIs(getMonday(today))
          /\ state'.lastMonday = Num(getMonday(today))]_vars

\* anchor 2024-12-09, today 2024-12-17: the anchor has become 2024-12-16
C11_Witness ==
  /\ last.op \in {"load", "activate"}
  /\ today = 8
  /\ archived + archiveErrors = 1
  /\ dateCell = <<2024, 12>>
  /\ dayHeader[4] = Num(16) /\ dayHeader[16] = Num(22)

\* C12: after a rollover every task cell and every score cell of the data
\* rows of all seven weekdays is empty and so is the totals row.
C12_RolloverEmptiesGrid ==
  [][(WeeklyInitRuns /\ AnchorIsDate(Cur) /\ AnchorAge >= 7)
       => \A c \in TASK_COLUMNS \cup SCORE_COLUMNS :
            /\ \A r \in DataRows : val'[c, r] = EmptyOf(c)
            /\ val'[c, scoreLine] = EmptyOf(c)]_vars

\* C13: a page load or a sheet activation with an anchor 0..6 days before
\* today archives nothing, changes no task, score or totals cell and leaves
\* the anchor and the day headers as they are.
C13_NoRolloverWithinWeek ==
  [][((IsStep("load") \/ IsStep("activate"))
        /\ AnchorIsDate(Cur) /\ AnchorAge >= 0 /\ AnchorAge < 7)
       => UNCHANGED <<archived, archiveErrors, val, dateCell, dayHeader>>]_vars

\* a reload on the Tuesday of a week that has a score
C13_Witness ==
  /\ last.op = "load"
  /\ today = 1
  /\ Total(4) > 0
  /\ dayHeader[4] = Num(9)
  /\ archived = 0

\* C14: when the Weekly initialisation runs and B4 holds no valid anchor
\* (empty, or a text that is no 'YYYY MM'), the anchor and the seven day
\* headers afterwards are those of the Monday of today's week.
C14_FirstTimeSetup ==
  [][(WeeklyInitRuns /\ ~AnchorIsDate(Cur)) => AnchorAfterIs(getMonday(today))]_vars

\* C15: a rollover whose archive fails still clears the scores and the totals
\* row and writes the new anchor, and the initialisation that started it runs
\* to its end (the activated sheet becomes the current sheet).
C15_ArchiveFailureIsSwallowed ==
  [][(archiveErrors' = archiveErrors + 1)
       => /\ AnchorAfterIs(getMonday(today))
          /\ \A c \in SCORE_COLUMNS :
               /\ \A r \in DataRows : val'[c, r] = Blank
               /\ val'[c, scoreLine] = Blank
          /\ \A c \in GridCols, r \in DataRows : fill'[c, r] \in {NoFill, CURRENT_TIME}
          /\ state'.lastInitDate = TodayKey
          /\ state'.currentSheet = WEEKLY_SHEET]_vars

\* a failed archive, after which the week that holds today is on the sheet
C15_Witness ==
  /\ archiveErrors = 1 /\ archived = 0
  /\ today >= 7
  /\ dayHeader[4] = Num(DateOf(getMonday(today)).d)
  /\ state.lastInitDate = TodayKey

\* C16: random fill changes only cells of the active weekday's task column
\* in rows that have a time value and had an empty task cell, writes there a
\* non-empty name of the Tasks ledger, and changes no other cell or colour.
C16_RandomFillOnlyEmptySlots ==
  [][IsStep("random")
       => /\ \A c \in GridCols, r \in GridRows :
               val'[c, r] # val[c, r]
                 => /\ c = state.dIndex * 2 + 3
                    /\ r \in TimeRows /\ timeVal[r] # Blank
                    /\ val[c, r] = ""
                    /\ val'[c, r] # ""
                    /\ Named(tasksSheet, val'[c, r]) # {}
          /\ UNCHANGED <<fill, dateCell, dayHeader, tasksSheet, summarySheet, state>>]_vars

\* on Monday a slot was filled, the slot that had a task kept it and the slot
\* without a time stayed empty
C16_Witness ==
  /\ last.op = "random"
  /\ state.dIndex = 0
  /\ val[3, DATA_START_ROW] = "Deep Work"
  /\ val[3, DATA_START_ROW + 1] # ""
  /\ val[3, lastTimeLine] = ""

\* the habit row of the click, and what 1.1^streak makes of a base score
ClickedRow == habitsSheet[last'.row]
\* the clicked cell is in column A of a data row up to lastRow
OnHabitName == last'.row >= HABITS_DATA_START_ROW /\ last'.row <= state.habitsLastRow
Recorded ==
  IsStep("habit") /\ OnHabitName /\ state.currentDayIndex >= 0 /\ ClickedRow.A # ""
StreakAmount(b, s) == b * Pow(11, s) * Pow(10, MaxStreak - s)

\* C17: a completion with streak s of a habit with numeric base score b >= 0
\* (b = 0 included) adds b * 1.1^s to the positive cell of today's Summary
\* row and nothing to its negative cell.
C17_HabitScoreIsBaseTimesStreak ==
  [][(Recorded /\ IsNum(ClickedRow.C) /\ ClickedRow.C[1] >= 0)
       => \E r \in SummaryRows :
            /\ summarySheet'[r].A = TodayKey
            /\ N(summarySheet'[r].D) = N(summarySheet[r].D)
                 + StreakAmount(ClickedRow.C[1],
                                Streak(ClickedRow.days, state.currentDayIndex - 1))
            /\ N(summarySheet'[r].E) = N(summarySheet[r].E)]_vars

\* C18: while currentDayIndex is -1 a click in column A of the Habits sheet
\* changes no cell of the Habits sheet and of the Summary sheet, and on a
\* habit name (a data row up to lastRow) it shows an error status;
\* currentDayIndex leaves -1 only by a refresh of the date window or by a new
\* initialisation.
C18_NoDayNoRecord ==
  [][/\ (IsStep("habit") /\ state.currentDayIndex = 0 - 1)
          => /\ UNCHANGED <<habitsSheet, habitsHeader, summarySheet, state>>
             /\ OnHabitName => habitStatus' = "error"
     /\ (state.currentDayIndex = 0 - 1 /\ state'.currentDayIndex # 0 - 1)
          => (IsStep("refresh") \/ IsStep("load"))]_vars

\* a click was refused because today is in no column of the window
C18_Witness ==
  /\ last.op = "habit"
  /\ last.row <= state.habitsLastRow
  /\ state.currentDayIndex = 0 - 1
  /\ habitStatus = "error"

\* the first day of the window the habits header was last refreshed for
WindowStart == DayNumber(habitsDateCell[1], habitsDateCell[2], habitsHeader[0][1])

\* C19: when today is none of the 14 dates of the window the header was last
\* refreshed for, habits initialisation sets currentDayIndex to -1.
C19_StaleWindowHasNoDay ==
  [][(IsStep("load") /\ (today < WindowStart \/ today >= WindowStart + DAYS_COUNT))
       => state'.currentDayIndex = 0 - 1]_vars

C22_IndexRoundTrip ==
  probe.fn = "indexToColumnLetter" => probe.back = probe.arg

\* C23: for every column string s of one or more letters,
\* indexToColumnLetter(columnLetterToIndex(s)) = s.
C23_LetterRoundTrip ==
  probe.fn = "columnLetterToIndex" => probe.back = probe.arg

\* C24: parseAddress("AB123") is column "AB", 1-based column index 29, row 123.
C24_ParseAB123 ==
  (probe.fn = "parseAddress" /\ probe.arg = <<0, 1, Digit(1), Digit(2), Digit(3)>>)
    => probe.out = [column |-> <<0, 1>>, colIndex |-> 29, row |-> 123]

\* the text starts with a run of uppercase letters directly followed by a digit
WellFormed(text) ==
  /\ Len(text) >= 2 /\ IsUpper(text[1])
  /\ UpperEnd(text, 1) <= Len(text) /\ IsDigit(text[UpperEnd(text, 1)])

\* C25: parseAddress is null for every text that does not start with a run of
\* uppercase letters directly followed by digits.
C25_MalformedIsNull ==
  (probe.fn = "parseAddress" /\ ~WellFormed(probe.arg)) => probe.out = Null

\* C21: after a refresh of the habits window the header holds the days of
\* month of the 14 days from the Monday of today's week, every count cell of
\* the data rows up to lastRow is empty, and currentDayIndex is today's offset
\* from that Monday, a value in 0..6.
C21_RefreshRebuildsWindow ==
  [][IsStep("refresh")
       => /\ \A i \in HabitDays :
               habitsHeader'[i] = Num(DateOf(getMonday(today) + i).d)
          /\ \A r \in HabitRows, d \in HabitDays :
               r <= state.habitsLastRow => habitsSheet'[r].days[d] = Blank
          /\ state'.currentDayIndex = today - getMonday(today)
          /\ state'.currentDayIndex \in 0..(DAYS_IN_WEEK - 1)]_vars

\* the window was refreshed in the week after the one it showed, on a Tuesday:
\* the counts of the old window are gone
C21_Witness ==
  /\ last.op = "refresh"
  /\ today = 8
  /\ habitsHeader[0] = Num(16)
  /\ state.currentDayIndex = 1
  /\ habitsSheet[HABITS_DATA_START_ROW].days[DAYS_IN_WEEK - 1] = Blank
  /\ habitsSheet[HABITS_DATA_START_ROW].R = Num(2)

\* C26: whatever sheets were activated and however often the sheet was
\* refreshed, at most one cell-changed handler is registered for a sheet and
\* one score edit starts the score pipeline once.
C26_OneHandlerPerSheet ==
  /\ \A s \in Sheets : changed[s] <= 1
  /\ Len(queue) <= 1

\* C27: when the update of the Summary ledger fails while a score entry is
\* processed, the later step of that event, the update of the Tasks ledger, is
\* not performed.
C27_SummaryFailureStopsPipeline ==
  [][(IsRun /\ Processes /\ last'.op = "summaryFailed")
       => UNCHANGED tasksSheet]_vars

\* the step activates the Weekly sheet
ActivatesWeekly == IsStep("activate") /\ state'.currentSheet = WEEKLY_SHEET

\* C28: an activation of the Weekly sheet on the day it was last fully
\* initialised archives nothing, writes no value, anchor or day header and no
\* session date, and only refreshes the highlight of the current time row; an
\* activation on a later day, or after an initialisation that did not
\* complete, runs the full check: the session's weekday and lastInitDate are
\* today's, and a due rollover is carried out.
C28_OncePerDay ==
  [][ActivatesWeekly
       => IF state.lastInitDate = TodayKey
          THEN /\ UNCHANGED <<archived, archiveErrors, val, dateCell, dayHeader,
                              hdrFill, tasksSheet, summarySheet>>
               /\ state' = [state EXCEPT !.currentSheet = WEEKLY_SHEET]
               /\ fill' = highlightCurrentTimeRow(Cur).fill
               /\ timeFill' = highlightCurrentTimeRow(Cur).timeFill
          ELSE /\ state'.lastInitDate = TodayKey
               /\ state'.dIndex = DayIndex(today)
               /\ state'.lastMonday = Num(getMonday(today))
               /\ (~HasAnchor(Cur) \/ (AnchorIsDate(Cur) /\ AnchorAge >= 7))
                    => AnchorAfterIs(getMonday(today))]_vars

\* the Weekly sheet was activated again on the day of its initialisation, with
\* an empty anchor: the anchor was not written
C28_Witness ==
  /\ last.op = "activate"
  /\ state.currentSheet = WEEKLY_SHEET
  /\ state.lastInitDate = TodayKey
  /\ dateCell = Blank

\* the time rows whose normalised time is at most now + 0.1 h, the latest of
\* those with the greatest time, and the rows whose time cell is highlighted
Qualifying ==
  {r \in TimeRows : /\ timeVal[r] # Blank
                    /\ TimeValue(timeVal[r]) # 0 - 1
                    /\ TimeValue(timeVal[r]) <= CurrentTimeDecimal + 144}
LatestOfBest ==
  {r \in Qualifying :
     \A q \in Qualifying :
        \/ TimeValue(timeVal[q]) < TimeValue(timeVal[r])
        \/ (TimeValue(timeVal[q]) = TimeValue(timeVal[r]) /\ q <= r)}
HighlightedAfter == {r \in TimeRows : timeFill'[r] = CURRENT_TIME}

\* C29: the current-time highlighter highlights, among the time rows with
\* t <= now + 0.1 h, the latest row that has the greatest t, and no row when
\* none qualifies.
C29_LatestRowOfMaxTime ==
  [][(ActivatesWeekly /\ state.lastInitDate = TodayKey)
       => HighlightedAfter = LatestOfBest]_vars

\* a count cell that is neither empty nor zero
Done(cell) == cell # Blank /\ cell # Num(0)
\* k day columns right before column cur are done and the one before them,
\* if there is one, is not
IsRunBefore(days, cur, k) ==
  /\ \A d \in (cur - k)..(cur - 1) : Done(days[d])
  /\ (k < cur => ~Done(days[cur - k - 1]))

\* C30: the streak of a recorded completion is the number k in
\* 0..currentDayIndex of done day columns right before today's column, up to
\* the first one that is empty or zero; today's own count does not count; a
\* habit with a positive base score b adds b * 1.1^k to today's Summary row.
C30_StreakIsRunBeforeToday ==
  [][Recorded
       => \E k \in 0..state.currentDayIndex :
            /\ IsRunBefore(ClickedRow.days, state.currentDayIndex, k)
            /\ Streak(ClickedRow.days, state.currentDayIndex - 1) = k
            /\ (IsNum(ClickedRow.C) /\ ClickedRow.C[1] > 0)
                 => \E r \in SummaryRows :
                      /\ summarySheet'[r].A = TodayKey
                      /\ N(summarySheet'[r].D) = N(summarySheet[r].D)
                           + StreakAmount(ClickedRow.C[1], k)]_vars

\* Exercise (base 5, done on the two days before today, 0 before them) was
\* completed twice today: 6.05 each time
C30_Witness ==
  /\ last.op = "habit"
  /\ last.row = HABITS_DATA_START_ROW
  /\ habitsSheet[HABITS_DATA_START_ROW].days[state.currentDayIndex] = Num(2)
  /\ \E r \in SummaryRows :
       /\ summarySheet[r].A = TodayKey
       /\ summarySheet[r].D = Num(2 * StreakAmount(5, 2))

\* ------------------------------------------------------- the weekday index
\* C37: whenever random fill, the time-row highlighter or the New Week action
\* runs, the session's weekday index is the index of today's weekday, also
\* when the date has changed since the last Weekly initialisation.
C37_DayIndexIsCurrent ==
  [][(IsStep("random") \/ IsStep("newweek"))
       => state.dIndex = DayIndex(today)]_vars

\* --------------------------------------------------- the two manual actions
\* a faulty variant: the Archive action goes on to clear and re-date the grid
archiveAndStartNewWeekClears(w) ==
  setNewWeekDates(clearForNewWeek(
    IF w.archiveFails THEN w ELSE [w EXCEPT !.archived = @ + 1]))

\* archiveAndStartNewWeek: exportWeekData and, unless the export failed, one
\* CSV download (also of a grid without time rows); then only a status message
archiveAndStartNewWeek(w) ==
  IF w.archiveFails THEN w ELSE [w EXCEPT !.archived = @ + 1]

\* the Archive button
ArchiveWeek ==
  /\ steps < MaxSteps /\ queue = <<>>
  /\ \E f \in BOOLEAN :
       Commit(archiveAndStartNewWeek([Cur EXCEPT !.archiveFails = f]))
  /\ steps' = steps + 1
  /\ last' = [op |-> "archive", col |-> 0, row |-> 0, wasSet |-> FALSE]
  /\ UNCHANGED <<env, queue>>

NextWeek ==
  \/ \E c \in EditCols, r \in EditRows, n \in {"Chore", "Walk"} : SelectTask(c, r, n)
  \/ \E c \in EditCols, r \in EditRows, v \in ScoreInputs : EditScore(c, r, v)
  \/ CellChanged
  \/ \E k \in DayJumps : NextDay(k)
  \/ ArchiveWeek
  \/ StartNewWeek

SpecWeek == Init /\ [][NextWeek]_vars

LongAbsence ==
  /\ steps < MaxSteps /\ queue = <<>>
  /\ today <= MaxDay
  /\ today' = today + AbsenceWeeks * DAYS_IN_WEEK
  /\ steps' = steps + 1
  /\ last' = [op |-> "day", col |-> 0, row |-> 0, wasSet |-> FALSE]
  /\ UNCHANGED <<wb, ledgers, habits, state, changed, queue, archived,
                 archiveErrors, habitStatus, clock, entered, probe, inflight>>

NextAnchor ==
  \/ \E s \in Sheets : SheetActivated(s)
  \/ \E k \in DayJumps : NextDay(k)
  \/ LongAbsence
  \/ Reload
  \/ \E v \in AnchorInputs : EditAnchor(v)
  \/ \E c \in EditCols, r \in EditRows, v \in ScoreInputs : EditScore(c, r, v)
  \/ CellChanged

SpecAnchor == Init /\ [][NextAnchor]_vars

\* B4 is empty, or B4 and D4 hold a Monday that is not later than today
AnchorAbsentOrMonday ==
  \/ dateCell = Blank
  \/ /\ AnchorIsDate(Cur)
     /\ GetDay(SheetLastMonday(Cur)) = 1
     /\ SheetLastMonday(Cur) <= today
\* the day that B4 and D4 parse to after the step
AnchorAfter == DayNumber(dateCell'[1], dateCell'[2], OrDefault(dayHeader'[4], 0))

\* C36: a completed Weekly initialisation that starts from an absent anchor or
\* from a Monday not later than today leaves an anchor that parses back to the
\* Monday of today's week; an initialisation repeated at once on the same date
\* computes diffDays in 0..6, exports nothing and changes no cell.
C36_AnchorRoundTrip ==
  [][(WeeklyInitRuns /\ AnchorAbsentOrMonday)
       => /\ Len(dateCell') >= 2
          /\ AnchorAfter = getMonday(today)
          /\ daysBetween(AnchorAfter, today) \in 0..6
          /\ ~IsNewWeek(daysBetween(AnchorAfter, today))
          /\ \E again \in {initializeWeeklyOnOpen(Cur')} :
               /\ again.archived = archived'
               /\ again.archiveErrors = archiveErrors'
               /\ again.val = val'
               /\ again.fill = fill'
               /\ again.dateCell = dateCell'
               /\ again.dayHeader = dayHeader']_vars

\* the workbook of the week of 2024-12-09 is opened on Wednesday 2025-01-01:
\* the anchor is now "2024 12" with first day 30
C36_Witness ==
  /\ last.op \in {"load", "activate"}
  /\ today = 23
  /\ state.lastInitDate = TodayKey
  /\ archived + archiveErrors = 1
  /\ dateCell = <<2024, 12>>
  /\ dayHeader[4] = Num(30) /\ dayHeader[8] = Num(1)

\* ------------------------------------------------ the highlight as time passes
\* half an hour passes
Tick ==
  /\ steps < MaxSteps /\ queue = <<>>
  /\ clock + 30 <= MaxClock
  /\ clock' = clock + 30
  /\ steps' = steps + 1
  /\ last' = [op |-> "tick", col |-> 0, row |-> 0, wasSet |-> FALSE]
  /\ UNCHANGED <<wb, ledgers, habits, state, changed, queue, archived,
                 archiveErrors, habitStatus, today, entered, probe, inflight>>

\* the user fills an empty time cell
AddTime(r, v) == timeVal[r] = Blank /\ EditTime(r, v)

\* the user adds time slots and leaves the filled ones alone
NextClock ==
  \/ \E r \in TimeRows, v \in TimeInputs \ {Blank} : AddTime(r, v)
  \/ \E s \in Sheets : SheetActivated(s)
  \/ Tick

SpecClock == Init /\ [][NextClock]_vars

\* the data rows that show the current-time colour in their time, task or
\* score cells
CurrentTimeRows ==
  {r \in TimeRows : \/ timeFill[r] = CURRENT_TIME
                    \/ \E c \in GridCols : fill[c, r] = CURRENT_TIME}

\* C35: whatever highlight refreshes have run, the current-time colour is
\* present in at most one data row.
C35_OneHighlightedRow ==
  \A r1 \in CurrentTimeRows : \A r2 \in CurrentTimeRows : r1 = r2

\* ------------------------------------------------------ the archive's rows
\* what the time column may hold when a week is exported: nothing, the day
\* fraction 0.5, the hour decimal 15.5, the text "8:30"
ExportTimeInputs == {Blank, Num(720), Num(22320), <<8, 30>>}

\* the Time field of a CSV row as <<HH, MM>>: for a number floor(time * 24)
\* and the rounded minutes of the rest, for a text the text itself
formatTime(time) ==
  IF IsNum(time) THEN <<time[1] \div 60, time[1] % 60>> ELSE time

\* the rows of the CSV, by sheet row: a row with an empty time cell is skipped
exportWeekData ==
  [r \in {q \in TimeRows : timeVal[q] # Blank} |-> formatTime(timeVal[r])]

\* the Archive button, with the rows of the exported CSV
ExportWeek ==
  /\ steps < MaxSteps /\ queue = <<>>
  /\ Commit(archiveAndStartNewWeek(Cur))
  /\ probe' = [fn |-> "exportWeekData", arg |-> timeVal,
               out |-> exportWeekData, back |-> <<>>]
  /\ steps' = steps + 1
  /\ last' = [op |-> "archive", col |-> 0, row |-> 0, wasSet |-> FALSE]
  /\ UNCHANGED <<today, clock, timeVal, queue, inflight>>

NextExport ==
  \/ \E r \in TimeRows, v \in ExportTimeInputs : EditTime(r, v)
  \/ ExportWeek

SpecExport == Init /\ [][NextExport]_vars

\* the time of day of a time cell as <<HH, MM>>
TimeOfDay(cell) == <<TimeValue(cell) \div 1440, (TimeValue(cell) % 1440) \div 24>>

\* C34: the exported CSV has one row for exactly each time slot whose time
\* cell is not empty, and a numeric time, a day fraction or an hour decimal,
\* is rendered as the HH:MM of its time of day.
C34_ExportedTimes ==
  probe.fn = "exportWeekData"
    => /\ DOMAIN probe.out = {r \in TimeRows : probe.arg[r] # Blank}
       /\ \A r \in DOMAIN probe.out :
            IsNum(probe.arg[r]) => probe.out[r] = TimeOfDay(probe.arg[r])

\* ------------------------------------------------------- a missing sheet
\* one queued invocation of handleCellChanged runs in a workbook that has no
\* Summary sheet
CellChangedNoSummary ==
  /\ queue # <<>>
  /\ Commit(handleCellChanged([Cur EXCEPT !.summaryMissing = TRUE], Head(queue)))
  /\ queue' = Tail(queue)
  /\ last' = [last EXCEPT !.op = "noSummary"]
  /\ UNCHANGED <<env, steps>>

\* the user clicks a habit name in a workbook that has no Summary sheet
HabitClickNoSummary(r) ==
  /\ steps < MaxSteps /\ queue = <<>>
  /\ state.currentSheet = HABITS_SHEET
  /\ Streak(habitsSheet[r].days, state.currentDayIndex - 1) <= MaxStreak
  /\ Commit(handleHabitsSelection([Cur EXCEPT !.summaryMissing = TRUE], <<0>>, r))
  /\ steps' = steps + 1
  /\ last' = [op |-> "habitNoSummary", col |-> 1, row |-> r, wasSet |-> FALSE]
  /\ UNCHANGED <<env, queue>>

NextMissing ==
  \/ \E c \in EditCols, r \in EditRows, v \in ScoreInputs : EditScore(c, r, v)
  \/ CellChanged
  \/ CellChangedNoSummary
  \/ \E s \in Sheets : SheetActivated(s)
  \/ \E r \in HabitRows : HabitClick(r)
  \/ \E r \in HabitRows : HabitClickNoSummary(r)

SpecMissing == Init /\ [][NextMissing]_vars

\* C32: when the Summary sheet does not exist, a score entry is aborted
\* without its remaining write, the update of the Tasks ledger, and a habit
\* completion ends with an error status that reports the missing sheet.
C32_MissingSheetAborts ==
  [][/\ (IsRun /\ Processes /\ last'.op = "noSummary")
          => UNCHANGED tasksSheet
     /\ (IsStep("habitNoSummary") /\ OnHabitName /\ state.currentDayIndex >= 0
           /\ ClickedRow.A # "")
          => habitStatus' = "error"]_vars

\* ------------------------------------------- interleaved runs of the pipeline
\* the user types v into an empty score cell while earlier invocations may
\* still be queued or under way
EditScoreQuick(c, r, v) ==
  /\ steps < MaxSteps
  /\ state.currentSheet = WEEKLY_SHEET
  /\ val[c, r] = Blank
  /\ Commit([Cur EXCEPT !.val[c, r] = v])
  /\ queue' = queue \o [i \in 1..changed[WEEKLY_SHEET] |->
                          [column |-> indexToColumnLetter(c - 1), row |-> r,
                           sheet |-> WEEKLY_SHEET, own |-> FALSE]]
  /\ steps' = steps + 1
  /\ last' = [op |-> "edit", col |-> c, row |-> r, wasSet |-> FALSE]
  /\ UNCHANGED env

\* an invocation of handleCellChanged runs up to the sync that loads the
\* totals cell: it holds the value read
BeginChanged ==
  /\ queue # <<>>
  /\ inflight' = Append(inflight,
                   [column |-> Head(queue).column, row |-> Head(queue).row,
                    read |-> val[ColOf(Head(queue).column), scoreLine],
                    stale |-> FALSE])
  /\ queue' = Tail(queue)
  /\ last' = [last EXCEPT !.op = "began"]
  /\ UNCHANGED <<wb, ledgers, habits, state, changed, archived, archiveErrors,
                 habitStatus, today, clock, steps, entered, probe>>

\* the rest of an invocation: the total written is the value read plus the
\* weighted score, whatever the cell holds by now
FinishPipeline(w, e) ==
  IF handleCellChanged(w, e) = w THEN w
  ELSE handleCellChanged([w EXCEPT !.val[ColOf(e.column), scoreLine] = e.read], e)

\* an invocation under way runs to its end; the others that read the same
\* totals cell now hold an outdated value
FinishChanged(i) ==
  /\ i \in 1..Len(inflight)
  /\ Commit(FinishPipeline(Cur, inflight[i]))
  /\ inflight' = [k \in 1..(Len(inflight) - 1) |->
                    LET e == inflight[IF k < i THEN k ELSE k + 1]
                    IN IF e.column = inflight[i].column
                          /\ handleCellChanged(Cur, inflight[i]) # Cur
                       THEN [e EXCEPT !.stale = TRUE] ELSE e]
  /\ last' = [op |-> "finished", col |-> ColOf(inflight[i].column),
              row |-> inflight[i].row, wasSet |-> FALSE,
              read |-> inflight[i].read, stale |-> inflight[i].stale]
  /\ UNCHANGED <<today, clock, timeVal, probe, queue, steps>>

NextRace ==
  \/ \E c \in EditCols, r \in EditRows, v \in ScoreInputs : EditScoreQuick(c, r, v)
  \/ BeginChanged
  \/ \E i \in 1..MaxSteps : FinishChanged(i)

SpecRace == Init /\ [][NextRace]_vars

\* an invocation ends in this step and has run the pipeline
Finishes ==
  /\ Len(inflight') < Len(inflight)
  /\ last'.op = "finished"
  /\ tasksSheet' # tasksSheet

\* C33: the total written by a pipeline run is the value it read earlier plus
\* its weighted score, whatever was written to the cell in between (the last
\* write wins, the other update is lost); when no write landed between the
\* read and the write, the total grows by exactly the weighted score.
C33_LastWriteWins ==
  [][Finishes
       => /\ TotalAfter(last'.col)
               = N(last'.read) + (entered'[last'.col] - entered[last'.col])
          /\ ~last'.stale
               => TotalAfter(last'.col) - Total(last'.col)
                    = entered'[last'.col] - entered[last'.col]]_vars

\* two runs on Tuesday's column overlapped: both have ended and the total is
\* less than the sum of the weighted scores applied
C33_Witness ==
  /\ queue = <<>> /\ inflight = <<>>
  /\ last.op = "finished" /\ last.stale
  /\ \E c \in SCORE_COLUMNS : entered[c] > 0 /\ Total(c) < entered[c]

\* --------------------------------------------- events for the add-in's writes
\* the columns of the Tasks sheet that the model keeps, as 0-based indexes
TaskFieldCols ==
  <<[f |-> "A", i |-> 0], [f |-> "B", i |-> 1], [f |-> "C", i |-> 2],
    [f |-> "D", i |-> 3], [f |-> "F", i |-> 5], [f |-> "G", i |-> 6]>>

RECURSIVE Concat(_)
Concat(ss) == IF ss = <<>> THEN <<>> ELSE Head(ss) \o Concat(Tail(ss))

\* one event for each of the n handlers registered on the sheet
Raised(ev, n) == [k \in 1..n |-> ev]

\* of the Weekly sheet's data rows the model keeps a few: an event that would
\* make the handler read a score cell of a row it does not keep is left out
\* (such a cell is empty, the handler would stop there)
Kept(colIndex, row) == ~IsScoreCell(colIndex, row) \/ row \in GridRows

\* the events the host raises for cells of the Tasks sheet written between w0
\* and w1; event.address carries no sheet name
LedgerEvents(w0, w1) ==
  Concat([r \in TasksRows |->
    Concat([k \in 1..Len(TaskFieldCols) |->
      IF /\ w0.tasksSheet[r][TaskFieldCols[k].f] # w1.tasksSheet[r][TaskFieldCols[k].f]
         /\ Kept(TaskFieldCols[k].i + 1, r)
      THEN Raised([column |-> indexToColumnLetter(TaskFieldCols[k].i), row |-> r,
                   sheet |-> TASKS_SHEET, own |-> TRUE],
                  w1.changed[TASKS_SHEET])
      ELSE <<>>])])

\* the events raised for the totals cells written between w0 and w1
TotalsEvents(w0, w1) ==
  Concat([d \in 1..DAYS_IN_WEEK |->
    IF w0.val[d * 2 + 2, scoreLine] # w1.val[d * 2 + 2, scoreLine]
    THEN Raised([column |-> indexToColumnLetter(d * 2 + 1), row |-> scoreLine,
                 sheet |-> WEEKLY_SHEET, own |-> TRUE],
                w1.changed[WEEKLY_SHEET])
    ELSE <<>>])

\* one queued invocation of handleCellChanged runs to completion and the host
\* raises the cell-changed events of its writes to the handlers of the sheets
\* written
CellChangedRaises ==
  /\ queue # <<>>
  /\ \A r \in TasksRows : N(tasksSheet[r].F) < MaxRuns
  /\ Commit(handleCellChanged(Cur, Head(queue)))
  /\ \E w \in {handleCellChanged(Cur, Head(queue))} :
       queue' = Tail(queue) \o TotalsEvents(Cur, w) \o LedgerEvents(Cur, w)
  /\ last' = [last EXCEPT !.op = "changed"]
  /\ UNCHANGED <<env, steps>>

NextEvents ==
  \/ \E c \in EditCols, r \in EditRows, v \in ScoreInputs : EditScore(c, r, v)
  \/ CellChanged
  \/ CellChangedRaises
  \/ \E s \in HandlerSheets : SheetActivated(s)

SpecEvents == Init /\ [][NextEvents]_vars

\* the step runs the invocation at the head of the queue
RunsHead == queue # <<>> /\ last'.op = "changed" /\ steps' = steps

\* C31: the score pipeline runs only for a change event of the Weekly sheet
\* whose cell is a score cell of the data rows holding a number, and never for
\* an event raised by a write of the add-in itself.
C31_OnlyUserScoreEvents ==
  [][(RunsHead /\ tasksSheet' # tasksSheet)
       => /\ Reaches
          /\ Head(queue).sheet = WEEKLY_SHEET
          /\ ~Head(queue).own]_vars

====
